---- MODULE Spec2Model ----
(***************************************************************************)
(* gsh: the tree-walking evaluator (src/src/evaluate/mod.rs), the string   *)
(* segments it evaluates (src/src/parse/string.rs) and the double-quoted   *)
(* literal parser (src/src/parse/string.rs, lit / lit_str / lit_reparse).  *)
(*                                                                         *)
(* A string is a sequence of one-character strings.  The evaluator's       *)
(* recursion is an explicit stack of frames, one per eval_inner call.      *)
(***************************************************************************)
EXTENDS Integers, Sequences, FiniteSets, TLC

VARIABLES
  stack,    \* eval_inner activations, innermost last
  ret,      \* value returned by the eval_inner that just finished
  vars,     \* session::Vars: the variable store with its checkpoints
  env,      \* the process environment (std::env)
  jobs,     \* commands submitted to the job table, in order
  result,   \* outcome of Eval::eval
  leaked,   \* history: Multi frames left by an error without vars.drop()
  done,     \* history: the activation that returned last
  pstate,   \* lit(): position of the parser in the grammar
  lits,     \* lit_str(): characters resolved so far
  hexs,     \* lit_str(): hex digits collected by the pending escape
  nuni,     \* number of \u escapes read so far
  parsed,   \* outcome of lit()
  linein,   \* Line::parse: the input text
  lineout   \* Line::parse: the result

evars == <<stack, ret, vars, env, jobs, result, leaked, done>>
pvars == <<pstate, lits, hexs, nuni, parsed>>
lvars == <<linein, lineout>>
allvars == <<evars, pvars, lvars>>

\* Bounds of the model.
MaxJobs == 3
MaxLit == 3
MaxHex == 9
MaxUni == 1

(***************************************************************************)
(* Strings                                                                 *)
(***************************************************************************)
UpperCase == <<"A","B","C","D","E","F","G","H","I","J","K","L","M",
               "N","O","P","Q","R","S","T","U","V","W","X","Y","Z">>
LowerCase == <<"a","b","c","d","e","f","g","h","i","j","k","l","m",
               "n","o","p","q","r","s","t","u","v","w","x","y","z">>

\* char::to_lowercase on the characters of the model (ASCII)
ToLowerChar(c) ==
  IF \E i \in 1..26 : UpperCase[i] = c
  THEN LowerCase[CHOOSE i \in 1..26 : UpperCase[i] = c]
  ELSE c

\* str::to_lowercase
ToLowercase(s) == [i \in 1..Len(s) |-> ToLowerChar(s[i])]

\* mutant: the condition text is compared without to_lowercase
Truthy_NoLower(s) ==
  s \in {<<"1">>, <<"y">>, <<"y","e","s">>, <<"t","r","u","e">>}

\* matches!(cond.to_lowercase().as_str(), "1" | "y" | "yes" | "true")
Truthy(s) ==
  ToLowercase(s) \in {<<"1">>, <<"y">>, <<"y","e","s">>, <<"t","r","u","e">>}

\* [String].join("")
RECURSIVE Join(_)
Join(ss) == IF ss = <<>> THEN <<>> ELSE Head(ss) \o Join(Tail(ss))

\* str::split('\n')
RECURSIVE Split(_)
Split(s) ==
  IF \A i \in 1..Len(s) : s[i] # "\n"
  THEN <<s>>
  ELSE LET p == CHOOSE i \in 1..Len(s) :
                  s[i] = "\n" /\ \A j \in 1..(i-1) : s[j] # "\n"
       IN  <<SubSeq(s, 1, p-1)>> \o Split(SubSeq(s, p+1, Len(s)))

DecDigit == <<"0","1","2","3","4","5","6","7","8","9">>

\* i32::to_string for the exit codes of the model (non-negative)
RECURSIVE CodeToString(_)
CodeToString(n) ==
  IF n < 10 THEN <<DecDigit[n+1]>>
  ELSE CodeToString(n \div 10) \o <<DecDigit[(n % 10) + 1]>>

(***************************************************************************)
(* SpecialStr and the process environment                                  *)
(***************************************************************************)
Str(s) == [kind |-> "String", s |-> s]
Var(k) == [kind |-> "Var", s |-> k]

\* SpecialStr::eval: every segment resolved, the first failure wins,
\* the results joined.
EvalStr(ss, e) ==
  IF \A i \in 1..Len(ss) : ss[i].kind = "Var" => ss[i].s \in DOMAIN e
  THEN [ok |-> TRUE,
        val |-> Join([i \in 1..Len(ss) |->
                        IF ss[i].kind = "String" THEN ss[i].s ELSE e[ss[i].s]])]
  ELSE [ok |-> FALSE, val |-> <<>>]

\* std::env::set_var panics on an empty key and on a key holding '='
BadKey(k) == k = <<>> \/ \E i \in 1..Len(k) : k[i] = "="

SetVar(e, k, v) == [x \in (DOMAIN e) \cup {k} |-> IF x = k THEN v ELSE e[x]]
RemoveVar(e, k) == [x \in (DOMAIN e) \ {k} |-> e[x]]

(***************************************************************************)
(* session::Vars (mark / drop / push)                                      *)
(***************************************************************************)
Mark(v) == [v EXCEPT !.marks = Append(@, Len(v.entries))]

Drop(v) ==
  IF v.marks = <<>> THEN v
  ELSE [entries |-> SubSeq(v.entries, 1, v.marks[Len(v.marks)]),
        marks   |-> SubSeq(v.marks, 1, Len(v.marks) - 1)]

Push(v, k, x) == [v EXCEPT !.entries = Append(@, <<k, x>>)]

StatusKey == <<"s","t","a","t","u","s">>

(***************************************************************************)
(* Eval trees                                                              *)
(***************************************************************************)
Single(cmd)        == [kind |-> "Single", cmd |-> cmd]
Multi(lines)       == [kind |-> "Multi", lines |-> lines]
If(c, first, sec)  == [kind |-> "If", cond |-> c, first |-> first, second |-> sec]
While(c, block)    == [kind |-> "While", cond |-> c, block |-> block]
Case(c, blocks)    == [kind |-> "Case", cond |-> c, blocks |-> blocks]
For(c, iter, block) == [kind |-> "For", c |-> c, iter |-> iter, block |-> block]
Break              == [kind |-> "Break"]
Continue           == [kind |-> "Continue"]

Signals == {"Normal", "Breaked", "Continued"}

\* Command::eval up to the dispatch: the name, then the arguments, are
\* interpolated; an undefined variable fails the command.
CommandEval(cmd, e) ==
  LET n == EvalStr(cmd.name, e) IN
  IF n.ok /\ \A i \in 1..Len(cmd.args) : EvalStr(cmd.args[i], e).ok
  THEN [ok |-> TRUE, name |-> n.val,
        args |-> [i \in 1..Len(cmd.args) |-> EvalStr(cmd.args[i], e).val]]
  ELSE [ok |-> FALSE, name |-> <<>>, args |-> <<>>]

\* mutant: the patterns are compared as they are evaluated, a pattern that
\* fails to evaluate is skipped
RECURSIVE CaseScan_Lazy(_, _, _, _)
CaseScan_Lazy(blocks, g, cond, e) ==
  IF g > Len(blocks) THEN [tag |-> "None", g |-> 0]
  ELSE LET pats == blocks[g].pats IN
       IF \E j \in 1..Len(pats) :
            EvalStr(pats[j], e).ok /\ EvalStr(pats[j], e).val = cond
       THEN [tag |-> "Match", g |-> g]
       ELSE CaseScan_Lazy(blocks, g + 1, cond, e)

\* Case: the groups scanned in order; all patterns of a group are evaluated
\* before any is compared.
RECURSIVE CaseScan(_, _, _, _)
CaseScan(blocks, g, cond, e) ==
  IF g > Len(blocks) THEN [tag |-> "None", g |-> 0]
  ELSE LET pats == blocks[g].pats IN
       IF \E j \in 1..Len(pats) : ~EvalStr(pats[j], e).ok
       THEN [tag |-> "Err", g |-> g]
       ELSE IF \E j \in 1..Len(pats) : EvalStr(pats[j], e).val = cond
       THEN [tag |-> "Match", g |-> g]
       ELSE CaseScan(blocks, g + 1, cond, e)

(***************************************************************************)
(* Frames                                                                  *)
(***************************************************************************)
Top == stack[Len(stack)]
Pop == SubSeq(stack, 1, Len(stack) - 1)

\* A fresh activation of eval_inner on node, reached by path from the root.
\* v0, e0, j0, kept, seen and rets are history: the store, the environment
\* and the number of submitted jobs on entry, the store entries when the
\* latest child line returned Normal, the values the loop variable was bound
\* to, and the signals the child lines returned.
FrameIn(node, path, e) ==
  [self |-> node, path |-> path, pc |-> "enter", i |-> 0, items |-> <<>>,
   v0 |-> vars, e0 |-> e, j0 |-> Len(jobs), kept |-> <<>>, seen |-> <<>>,
   rets |-> <<>>]

Frame(node, path) == FrameIn(node, path, env)

\* the top frame becomes f and calls eval_inner on its k-th child, in the
\* environment e
CallIn(f, node, k, e) ==
  Append(Pop, f) \o <<FrameIn(node, Append(f.path, k), e)>>

Call(f, node, k) == CallIn(f, node, k, env)

Running == result = "running" /\ stack # <<>>
At(kind, pc) == Running /\ Top.self.kind = kind /\ Top.pc = pc

\* eval_inner, its activation being f, returns r to its caller
ReturnFrom(f, r) ==
  /\ stack' = Pop
  /\ done' = f
  /\ ret' = r

Return(r) == ReturnFrom(Top, r)

\* eval_inner goes on with the stack st
Goto(st, r) ==
  /\ stack' = st
  /\ done' = done
  /\ ret' = r

(***************************************************************************)
(* Multi                                                                   *)
(***************************************************************************)
MultiEnter ==
  /\ At("Multi", "enter")
  /\ vars' = Mark(vars)
  /\ Goto(Append(Pop, [Top EXCEPT !.pc = "loop", !.i = 1]), ret)
  /\ UNCHANGED <<env, jobs, result, leaked, pvars, lvars>>

MultiNext ==
  /\ At("Multi", "loop")
  /\ Top.i <= Len(Top.self.lines)
  /\ Goto(Call([Top EXCEPT !.pc = "await"], Top.self.lines[Top.i], Top.i), ret)
  /\ UNCHANGED <<vars, env, jobs, result, leaked, pvars, lvars>>

\* mutant: a Breaked or Continued child leaves the block without vars.drop()
MultiRet_NoDrop ==
  /\ At("Multi", "await")
  /\ ret \in Signals
  /\ IF ret = "Normal"
     THEN /\ Goto(Append(Pop, [Top EXCEPT !.pc = "loop", !.i = @ + 1,
                                          !.rets = Append(@, ret),
                                          !.kept = vars.entries]), "none")
          /\ vars' = vars
     ELSE /\ vars' = vars
          /\ ReturnFrom([Top EXCEPT !.rets = Append(@, ret)], ret)
  /\ UNCHANGED <<env, jobs, result, leaked, pvars, lvars>>

\* mutant: only Breaked ends the block; Continued goes on to the next line
MultiRet_IgnoreContinue ==
  /\ At("Multi", "await")
  /\ ret \in Signals
  /\ IF ret \in {"Normal", "Continued"}
     THEN /\ Goto(Append(Pop, [Top EXCEPT !.pc = "loop", !.i = @ + 1,
                                          !.rets = Append(@, ret),
                                          !.kept = vars.entries]), "none")
          /\ vars' = vars
     ELSE /\ vars' = Drop(vars)
          /\ ReturnFrom([Top EXCEPT !.rets = Append(@, ret)], ret)
  /\ UNCHANGED <<env, jobs, result, leaked, pvars, lvars>>

MultiRet ==
  /\ At("Multi", "await")
  /\ ret \in Signals
  /\ IF ret = "Normal"
     THEN /\ Goto(Append(Pop, [Top EXCEPT !.pc = "loop", !.i = @ + 1,
                                          !.rets = Append(@, ret),
                                          !.kept = vars.entries]), "none")
          /\ vars' = vars
     ELSE /\ vars' = Drop(vars)
          /\ ReturnFrom([Top EXCEPT !.rets = Append(@, ret)], ret)
  /\ UNCHANGED <<env, jobs, result, leaked, pvars, lvars>>

MultiExit ==
  /\ At("Multi", "loop")
  /\ Top.i > Len(Top.self.lines)
  /\ vars' = Drop(vars)
  /\ Return("Normal")
  /\ UNCHANGED <<env, jobs, result, leaked, pvars, lvars>>

(***************************************************************************)
(* Single                                                                  *)
(***************************************************************************)
ExitCodes == {0, 12}

SingleEval ==
  /\ At("Single", "enter")
  /\ Len(jobs) < MaxJobs
  /\ LET out == CommandEval(Top.self.cmd, env)
         job(stat, code) == [path |-> Top.path, name |-> out.name,
                             args |-> out.args, stat |-> stat, code |-> code]
     IN
     \/ /\ ~out.ok                         \* interpolation fails
        /\ Return("Err")
        /\ UNCHANGED <<vars, jobs>>
     \/ /\ out.ok                          \* the submission fails
        /\ Return("Err")
        /\ UNCHANGED <<vars, jobs>>
     \/ /\ out.ok                          \* wait_fg fails
        /\ Return("Err")
        /\ jobs' = Append(jobs, job("WaitErr", <<>>))
        /\ vars' = vars
     \/ /\ out.ok                          \* Some(Status::Exited(code))
        /\ \E code \in ExitCodes :
             /\ jobs' = Append(jobs, job("Exited", CodeToString(code)))
             /\ vars' = Push(vars, StatusKey, CodeToString(code))
        /\ Return("Normal")
     \/ /\ out.ok                          \* no exit code reported
        /\ jobs' = Append(jobs, job("None", <<>>))
        /\ vars' = vars
        /\ Return("Normal")
  /\ UNCHANGED <<env, result, leaked, pvars, lvars>>

(***************************************************************************)
(* If                                                                      *)
(***************************************************************************)
IfEnter ==
  /\ At("If", "enter")
  /\ LET c == EvalStr(Top.self.cond, env)
         f == [Top EXCEPT !.pc = "await"]
     IN
     IF ~c.ok THEN Return("Err")
     ELSE IF Truthy(c.val) THEN Goto(Call(f, Top.self.first, 1), ret)
     ELSE IF Top.self.second # <<>>
          THEN Goto(Call(f, Top.self.second[1], 2), ret)
     ELSE Return("Normal")
  /\ UNCHANGED <<vars, env, jobs, result, leaked, pvars, lvars>>

IfRet ==
  /\ At("If", "await")
  /\ ret \in Signals
  /\ Return(ret)
  /\ UNCHANGED <<vars, env, jobs, result, leaked, pvars, lvars>>

(***************************************************************************)
(* While                                                                   *)
(***************************************************************************)
WhileCheck ==
  /\ Running
  /\ Top.self.kind = "While"
  /\ Top.pc \in {"enter", "loop"}
  /\ LET c == EvalStr(Top.self.cond, env) IN
     IF ~c.ok THEN Return("Err")
     ELSE IF Truthy(c.val)
          THEN Goto(Call([Top EXCEPT !.pc = "await"], Top.self.block, 1), ret)
     ELSE Return("Normal")
  /\ UNCHANGED <<vars, env, jobs, result, leaked, pvars, lvars>>

\* mutant: the loop hands the Breaked of its body on to its caller
WhileRet_Propagate ==
  /\ At("While", "await")
  /\ ret \in Signals
  /\ IF ret = "Breaked"
     THEN Return("Breaked")
     ELSE Goto(Append(Pop, [Top EXCEPT !.pc = "loop"]), "none")
  /\ UNCHANGED <<vars, env, jobs, result, leaked, pvars, lvars>>

WhileRet ==
  /\ At("While", "await")
  /\ ret \in Signals
  /\ IF ret = "Breaked"
     THEN Return("Normal")
     ELSE Goto(Append(Pop, [Top EXCEPT !.pc = "loop"]), "none")
  /\ UNCHANGED <<vars, env, jobs, result, leaked, pvars, lvars>>

(***************************************************************************)
(* Case                                                                    *)
(***************************************************************************)
CaseEnter ==
  /\ At("Case", "enter")
  /\ LET c == EvalStr(Top.self.cond, env)
         m == CaseScan(Top.self.blocks, 1, c.val, env)
     IN
     IF ~c.ok \/ m.tag = "Err" THEN Return("Err")
     ELSE IF m.tag = "Match"
          THEN Goto(Call([Top EXCEPT !.pc = "await", !.i = m.g],
                         Top.self.blocks[m.g].block, m.g), ret)
     ELSE Return("Normal")
  /\ UNCHANGED <<vars, env, jobs, result, leaked, pvars, lvars>>

CaseRet ==
  /\ At("Case", "await")
  /\ ret \in Signals
  /\ ReturnFrom([Top EXCEPT !.rets = Append(@, ret)], ret)
  /\ UNCHANGED <<vars, env, jobs, result, leaked, pvars, lvars>>

(***************************************************************************)
(* For                                                                     *)
(***************************************************************************)
ForEnter ==
  /\ At("For", "enter")
  /\ LET it == EvalStr(Top.self.iter, env) IN
     IF ~it.ok THEN Return("Err")
     ELSE Goto(Append(Pop, [Top EXCEPT !.pc = "loop", !.i = 1,
                                       !.items = Split(it.val)]), ret)
  /\ UNCHANGED <<vars, env, jobs, result, leaked, pvars, lvars>>

ForNext ==
  /\ At("For", "loop")
  /\ Top.i <= Len(Top.items)
  /\ IF BadKey(Top.self.c)
     THEN /\ result' = "Panic"
          /\ UNCHANGED <<stack, done, ret, env>>
     ELSE /\ env' = SetVar(env, Top.self.c, Top.items[Top.i])
          /\ Goto(CallIn([Top EXCEPT !.pc = "await",
                                     !.seen = Append(@, env'[Top.self.c])],
                          Top.self.block, 1, env'), ret)
          /\ result' = result
  /\ UNCHANGED <<vars, jobs, leaked, pvars, lvars>>

\* mutant: a break leaves the loop without remove_var
ForRet_KeepVar ==
  /\ At("For", "await")
  /\ ret \in Signals
  /\ IF ret = "Breaked"
     THEN /\ env' = env
          /\ Return("Normal")
     ELSE /\ Goto(Append(Pop, [Top EXCEPT !.pc = "loop", !.i = @ + 1]), "none")
          /\ env' = env
  /\ UNCHANGED <<vars, jobs, result, leaked, pvars, lvars>>

ForRet ==
  /\ At("For", "await")
  /\ ret \in Signals
  /\ IF ret = "Breaked"
     THEN /\ env' = RemoveVar(env, Top.self.c)
          /\ Return("Normal")
     ELSE /\ Goto(Append(Pop, [Top EXCEPT !.pc = "loop", !.i = @ + 1]), "none")
          /\ env' = env
  /\ UNCHANGED <<vars, jobs, result, leaked, pvars, lvars>>

ForExit ==
  /\ At("For", "loop")
  /\ Top.i > Len(Top.items)
  /\ env' = RemoveVar(env, Top.self.c)
  /\ Return("Normal")
  /\ UNCHANGED <<vars, jobs, result, leaked, pvars, lvars>>

(***************************************************************************)
(* Break, Continue, `?`, and Eval::eval                                    *)
(***************************************************************************)
BreakEval ==
  /\ At("Break", "enter")
  /\ Return("Breaked")
  /\ UNCHANGED <<vars, env, jobs, result, leaked, pvars, lvars>>

ContinueEval ==
  /\ At("Continue", "enter")
  /\ Return("Continued")
  /\ UNCHANGED <<vars, env, jobs, result, leaked, pvars, lvars>>

\* mutant: a block rolls its checkpoint back when an error leaves it
ErrPropagate_Drop ==
  /\ Running
  /\ ret = "Err"
  /\ Return("Err")
  /\ leaked' = IF Top.self.kind = "Multi" THEN leaked + 1 ELSE leaked
  /\ vars' = IF Top.self.kind = "Multi" THEN Drop(vars) ELSE vars
  /\ UNCHANGED <<env, jobs, result, pvars, lvars>>

\* `?` on a child's result: the error leaves the construct at once
ErrPropagate ==
  /\ Running
  /\ ret = "Err"
  /\ Return("Err")
  /\ leaked' = IF Top.self.kind = "Multi" THEN leaked + 1 ELSE leaked
  /\ UNCHANGED <<vars, env, jobs, result, pvars, lvars>>

\* mutant: a signal that reaches evaluate is reported as a failure
EvalDone_StraySignalFails ==
  /\ result = "running"
  /\ stack = <<>>
  /\ result' = IF ret = "Normal" THEN "Ok" ELSE "Err"
  /\ UNCHANGED <<stack, done, ret, vars, env, jobs, leaked, pvars, lvars>>

EvalDone ==
  /\ result = "running"
  /\ stack = <<>>
  /\ result' = IF ret = "Err" THEN "Err" ELSE "Ok"
  /\ UNCHANGED <<stack, done, ret, vars, env, jobs, leaked, pvars, lvars>>

(***************************************************************************)
(* Programs and environments the evaluator is run on                       *)
(***************************************************************************)
kx == <<"x">>
ky == <<"y">>
ku == <<"u">>
ksrc == <<"s","r","c">>
kbad == <<"a","=","b">>

Lit(s) == <<Str(s)>>
Ref(k) == <<Var(k)>>
Cmd(n) == Single([name |-> Lit(<<"c", n>>), args |-> <<>>])
Echo(k) == Single([name |-> Lit(<<"e","c","h","o">>), args |-> <<Ref(k)>>])
Group(pats, block) == [pats |-> pats, block |-> block]
Yes == Lit(<<"y","e","s">>)
None == <<>>
Some(x) == <<x>>

\* for x in $src; case $x; { $y; => break }
PFor1 == For(kx, Ref(ksrc), Case(Ref(kx), <<Group(<<Ref(ky)>>, Break)>>))
\* for x in $src; { echo $x;; case $x; { $y; => break  "b" => continue }; c2 }
PFor2 == For(kx, Ref(ksrc),
             Multi(<<Echo(kx),
                     Case(Ref(kx), <<Group(<<Ref(ky)>>, Break),
                                     Group(<<Lit(<<"b">>)>>, Continue)>>),
                     Cmd("2")>>))
\* for x in $src; for x in "1" break
PFor3 == For(kx, Ref(ksrc), For(kx, Lit(<<"1">>), Break))
\* for x in "a\nb" { while yes break; echo $x; }
PFor4 == For(kx, Lit(<<"a","\n","b">>), Multi(<<While(Yes, Break), Echo(kx)>>))
\* for a=b in "a" c1
PFor5 == For(kbad, Lit(<<"a">>), Cmd("1"))
ForProgs == {PFor1, PFor2, PFor3, PFor4, PFor5}

\* while $x; break
PWhile1 == While(Ref(kx), Break)
\* while y$x; { c1; break; c2 }
PWhile2 == While(<<Str(<<"y">>), Var(kx)>>, Multi(<<Cmd("1"), Break, Cmd("2")>>))
\* while $x; for x in "a" continue
PWhile3 == While(Ref(kx), For(kx, Lit(<<"a">>), Continue))
\* while $x; c1
PWhile4 == While(Ref(kx), Cmd("1"))
\* while yes if $x; break else { c1; continue; c2 }
PWhile5 == While(Yes, If(Ref(kx), Break,
                         Some(Multi(<<Cmd("1"), Continue, Cmd("2")>>))))
\* if $x; c1
PIf1 == If(Ref(kx), Cmd("1"), None)
WhileProgs == {PWhile1, PWhile2, PWhile3, PWhile4, PWhile5, PIf1}

\* case $y; { "a" | "b" => c1  "b" => c2 }
PCase1 == Case(Ref(ky), <<Group(<<Lit(<<"a">>), Lit(<<"b">>)>>, Cmd("1")),
                          Group(<<Lit(<<"b">>)>>, Cmd("2"))>>)
\* case $y; { "a" | $u; => c1  "b" => c2 }
PCase2 == Case(Ref(ky), <<Group(<<Lit(<<"a">>), Ref(ku)>>, Cmd("1")),
                          Group(<<Lit(<<"b">>)>>, Cmd("2"))>>)
\* case $y; { }
PCase3 == Case(Ref(ky), <<>>)
\* while yes case $y; { "a" => break  $u; => continue  "c" => { c1; break } }
PCase4 == While(Yes, Case(Ref(ky),
                  <<Group(<<Lit(<<"a">>)>>, Break),
                    Group(<<Ref(ku)>>, Continue),
                    Group(<<Lit(<<"c">>)>>, Multi(<<Cmd("1"), Break>>))>>))
CaseProgs == {PCase1, PCase2, PCase3, PCase4}

\* { c1; { if $u; c2; c3 } }
PMulti1 == Multi(<<Cmd("1"), Multi(<<If(Ref(ku), Cmd("2"), None), Cmd("3")>>)>>)
\* { c1; c2 }
PMulti2 == Multi(<<Cmd("1"), Cmd("2")>>)
\* while yes { c1; { break; c2 }; c3 }
PMulti3 == While(Yes, Multi(<<Cmd("1"), Multi(<<Break, Cmd("2")>>), Cmd("3")>>))
\* { { }; if $u; continue; c1 }
PMulti4 == Multi(<<Multi(<<>>), If(Ref(ku), Continue, None), Cmd("1")>>)
\* { c1; $u; }
PMulti5 == Multi(<<Cmd("1"), Single([name |-> Ref(ku), args |-> <<>>])>>)
\* break
PMulti6 == Break
\* { c1; { break; c2 }; c3 }
PMulti7 == Multi(<<Cmd("1"), Multi(<<Break, Cmd("2")>>), Cmd("3")>>)
\* { c1; if yes { continue; c2 }; c3 }
PMulti8 ==
  Multi(<<Cmd("1"), If(Yes, Multi(<<Continue, Cmd("2")>>), None), Cmd("3")>>)
MultiProgs ==
  {PMulti1, PMulti2, PMulti3, PMulti4, PMulti5, PMulti6, PMulti7, PMulti8}

\* the environment that binds each key of m (a set of <<key, value>> pairs)
EnvOf(m) == [k \in {b[1] : b \in m} |-> (CHOOSE b \in m : b[1] = k)[2]]

Sources == {<<>>, <<"a">>, <<"a","\n","b">>, <<"a","\n","b","\n","c">>,
            <<"b","\n">>}
Targets == {<<"a">>, <<"b">>, <<"c">>}
CondVals == {<<"1">>, <<"y">>, <<"Y">>, <<"y","e","s">>, <<"Y","E","S">>,
             <<"y","E","s">>, <<"t","r","u","e">>, <<"T","R","U","E">>,
             <<"T","r","u","e">>, <<"0">>, <<>>, <<"n","o">>, <<"e","s">>,
             <<"E","S">>, <<"y","e">>, <<"y","e","s","s">>, <<"1","1">>,
             <<"o","n">>, <<"t">>}

Opt(k, vals) == {{<<k, v>>} : v \in vals} \cup {{}}

ForEnvs == {EnvOf(s \cup y \cup x) :
              s \in Opt(ksrc, Sources), y \in Opt(ky, Targets),
              x \in Opt(kx, {<<"o","l","d">>})}
WhileEnvs == {EnvOf(x) : x \in Opt(kx, CondVals)}
CaseEnvs == {EnvOf(y \cup u) :
               y \in Opt(ky, Targets \cup {<<>>}), u \in Opt(ku, Targets)}
MultiEnvs == {EnvOf(u) : u \in Opt(ku, {<<"y","e","s">>, <<"n","o">>})}

EmptyVars == [entries |-> <<>>, marks |-> <<>>]
UsedVars == [entries |-> <<<<StatusKey, <<"0">>>>>>, marks |-> <<>>]

Inputs ==
  (ForProgs \X ForEnvs \X {EmptyVars})
    \cup (WhileProgs \X WhileEnvs \X {EmptyVars})
    \cup (CaseProgs \X CaseEnvs \X {EmptyVars})
    \cup (MultiProgs \X MultiEnvs \X {EmptyVars, UsedVars})

(***************************************************************************)
(* Specification of the evaluator                                          *)
(***************************************************************************)
ParserIdle ==
  /\ linein = <<>>
  /\ lineout = [kind |-> "none"]
  /\ pstate = "idle"
  /\ lits = <<>>
  /\ hexs = <<>>
  /\ nuni = 0
  /\ parsed = [tag |-> "none", segs |-> <<>>]

Init ==
  /\ ret = "none"
  /\ jobs = <<>>
  /\ result = "running"
  /\ leaked = 0
  /\ \E inp \in Inputs :
       /\ vars = inp[3]
       /\ env = inp[2]
       /\ stack = <<Frame(inp[1], <<>>)>>
       /\ done = Frame([kind |-> "none"], <<>>)
  /\ ParserIdle

Next ==
  \/ MultiEnter \/ MultiNext \/ MultiRet \/ MultiExit
  \/ SingleEval
  \/ IfEnter \/ IfRet
  \/ WhileCheck \/ WhileRet
  \/ CaseEnter \/ CaseRet
  \/ ForEnter \/ ForNext \/ ForRet \/ ForExit
  \/ BreakEval \/ ContinueEval
  \/ ErrPropagate
  \/ EvalDone

Spec == Init /\ [][Next]_allvars

(***************************************************************************)
(* lit(): the double-quoted literal.  The input is read one character at   *)
(* a time; a resolved character is its code point.                         *)
(***************************************************************************)
InputChars == {"\"", "\\", "u", "{", "}", "x", "a", "$", ";", "0", "D"}
EOF == "eof"

\* the code point of a character of the input
CodeOf(c) ==
  CASE c = "\"" -> 34 [] c = "\\" -> 92 [] c = "u" -> 117 [] c = "{" -> 123
    [] c = "}" -> 125 [] c = "x" -> 120 [] c = "a" -> 97 [] c = "$" -> 36
    [] c = ";" -> 59 [] c = "0" -> 48 [] c = "D" -> 68

\* char::hex_digit, and the value of a hex digit
IsHex(c) == c \in {"0", "D"}
HexVal(c) == IF c = "D" THEN 13 ELSE 0

\* one_of("abefnrtv\\\""), and the character each names
IsNamed(c) == c \in {"a", "\\", "\""}
Named(c) == CASE c = "a" -> 7 [] c = "\\" -> 92 [] c = "\"" -> 34

\* u32::from_str_radix(s, 16): the digits are accumulated from the left and
\* a value that leaves 32 bits is an error.  The value is kept as its two
\* 16-bit halves.
RECURSIVE FromStrRadix(_, _)
FromStrRadix(ds, acc) ==
  IF ds = <<>> THEN acc
  ELSE LET lo == acc.lo * 16 + HexVal(Head(ds))
           hi == acc.hi * 16 + (lo \div 65536)
       IN  IF hi >= 65536
           THEN [ok |-> FALSE, hi |-> 0, lo |-> 0]
           ELSE FromStrRadix(Tail(ds), [ok |-> TRUE, hi |-> hi, lo |-> lo % 65536])

U32FromHex(ds) == FromStrRadix(ds, [ok |-> TRUE, hi |-> 0, lo |-> 0])

\* char::try_from(u32): no surrogate and nothing above 10FFFF is a char
CharFromU32(v) ==
  IF v.hi > 16 \/ (v.hi = 0 /\ v.lo >= 55296 /\ v.lo <= 57343)
  THEN [ok |-> FALSE, code |-> 0]
  ELSE [ok |-> TRUE, code |-> v.hi * 65536 + v.lo]

\* the closure of the \u{...} escape: both results are unwrapped
UnicodeEscape(ds) ==
  LET v == U32FromHex(ds) IN
  IF ~v.ok THEN [ok |-> FALSE, code |-> 0] ELSE CharFromU32(v)

\* u8::from_str_radix(s, 16).unwrap() as char, s two hex digits
ByteEscape(ds) == HexVal(ds[1]) * 16 + HexVal(ds[2])

\* the length of the longest prefix of s that holds no c
RECURSIVE RunLen(_, _)
RunLen(s, c) ==
  IF s = <<>> \/ Head(s) = c THEN 0 ELSE 1 + RunLen(Tail(s), c)

\* lit_reparse on the resolved text: variable references `$name;` between
\* runs of other characters; a `$` that opens no complete reference fails
RECURSIVE LitReparse(_)
LitReparse(s) ==
  IF s = <<>> THEN [ok |-> TRUE, segs |-> <<>>]
  ELSE IF Head(s) = 36
  THEN LET n == RunLen(Tail(s), 59) IN
       IF n = 0 \/ n + 1 = Len(s)
       THEN [ok |-> FALSE, segs |-> <<>>]
       ELSE LET rest == LitReparse(SubSeq(s, n + 3, Len(s))) IN
            [ok |-> rest.ok,
             segs |-> <<Var(SubSeq(s, 2, n + 1))>> \o rest.segs]
  ELSE LET n == RunLen(s, 36)
           rest == LitReparse(SubSeq(s, n + 1, Len(s)))
       IN  [ok |-> rest.ok, segs |-> <<Str(SubSeq(s, 1, n))>> \o rest.segs]

Fail == /\ parsed' = [tag |-> "ParseError", segs |-> <<>>]
        /\ pstate' = "end"
        /\ UNCHANGED <<lits, hexs, nuni>>

Panic == /\ parsed' = [tag |-> "Panic", segs |-> <<>>]
         /\ pstate' = "end"
         /\ UNCHANGED <<lits, hexs, nuni>>

\* token('"')
LitOpen ==
  /\ pstate = "open"
  /\ \E c \in InputChars \cup {EOF} :
       IF c = "\"" THEN pstate' = "char" /\ UNCHANGED <<lits, hexs, nuni, parsed>>
       ELSE Fail
  /\ UNCHANGED <<evars, lvars>>

\* satisfy(|c| c != '"'), an ordinary character
LitChar ==
  /\ pstate = "char"
  /\ Len(lits) < MaxLit
  /\ \E c \in InputChars \ {"\"", "\\"} :
       /\ lits' = Append(lits, CodeOf(c))
       /\ UNCHANGED <<pstate, hexs, nuni, parsed>>
  /\ UNCHANGED <<evars, lvars>>

\* satisfy(|c| c != '"'), a backslash
LitBackslash ==
  /\ pstate = "char"
  /\ Len(lits) < MaxLit
  /\ pstate' = "esc"
  /\ UNCHANGED <<lits, hexs, nuni, parsed>>
  /\ UNCHANGED <<evars, lvars>>

\* the choice after a backslash
LitEscape ==
  /\ pstate = "esc"
  /\ \E c \in InputChars \cup {EOF} :
       IF IsNamed(c)
       THEN /\ lits' = Append(lits, Named(c))
            /\ pstate' = "char"
            /\ UNCHANGED <<hexs, nuni, parsed>>
       ELSE IF c = "x"
       THEN pstate' = "x" /\ hexs' = <<>> /\ UNCHANGED <<lits, nuni, parsed>>
       ELSE IF c = "u"
       THEN /\ nuni < MaxUni
            /\ pstate' = "ubrace"
            /\ nuni' = nuni + 1
            /\ UNCHANGED <<lits, hexs, parsed>>
       ELSE Fail
  /\ UNCHANGED <<evars, lvars>>

\* count_min_max(2, 2, hex_digit()) and its closure
LitHexByte ==
  /\ pstate = "x"
  /\ \E c \in InputChars \cup {EOF} :
       IF ~IsHex(c) THEN Fail
       ELSE IF Len(hexs) = 0
       THEN hexs' = <<c>> /\ UNCHANGED <<pstate, lits, nuni, parsed>>
       ELSE /\ lits' = Append(lits, ByteEscape(Append(hexs, c)))
            /\ hexs' = <<>>
            /\ pstate' = "char"
            /\ UNCHANGED <<nuni, parsed>>
  /\ UNCHANGED <<evars, lvars>>

\* token('{')
LitBrace ==
  /\ pstate = "ubrace"
  /\ \E c \in InputChars \cup {EOF} :
       IF c = "{"
       THEN pstate' = "uhex" /\ hexs' = <<>> /\ UNCHANGED <<lits, nuni, parsed>>
       ELSE Fail
  /\ UNCHANGED <<evars, lvars>>

\* many1(hex_digit()), one more digit
LitHexDigit ==
  /\ pstate = "uhex"
  /\ Len(hexs) < MaxHex
  /\ \E c \in {d \in InputChars : IsHex(d)} :
       hexs' = Append(hexs, c)
  /\ UNCHANGED <<pstate, lits, nuni, parsed>>
  /\ UNCHANGED <<evars, lvars>>

\* many1(hex_digit()) ends at a character that is no hex digit: the closure
\* runs on the digits read, then token('}') reads that character
LitCodePoint ==
  /\ pstate = "uhex"
  /\ \E c \in {d \in InputChars \cup {EOF} : ~IsHex(d)} :
       IF hexs = <<>> THEN Fail
       ELSE IF ~UnicodeEscape(hexs).ok THEN Panic
       ELSE IF c = "}"
       THEN /\ lits' = Append(lits, UnicodeEscape(hexs).code)
            /\ hexs' = <<>>
            /\ pstate' = "char"
            /\ UNCHANGED <<nuni, parsed>>
       ELSE Fail
  /\ UNCHANGED <<evars, lvars>>

\* many1 ends at the closing quote or at the end of the input: the text is
\* parsed again for its variable references, then token('"')
LitClose ==
  /\ pstate = "char"
  /\ \E c \in {"\"", EOF} :
       IF lits = <<>> \/ ~LitReparse(lits).ok \/ c = EOF THEN Fail
       ELSE /\ parsed' = [tag |-> "Ok", segs |-> LitReparse(lits).segs]
            /\ pstate' = "end"
            /\ UNCHANGED <<lits, hexs, nuni>>
  /\ UNCHANGED <<evars, lvars>>

(***************************************************************************)
(* Specification of the literal parser                                     *)
(***************************************************************************)
InitParse ==
  /\ stack = <<>>
  /\ ret = "none"
  /\ vars = EmptyVars
  /\ env = EnvOf({})
  /\ jobs = <<>>
  /\ result = "idle"
  /\ leaked = 0
  /\ done = FrameIn([kind |-> "none"], <<>>, EnvOf({}))
  /\ linein = <<>>
  /\ lineout = [kind |-> "none"]
  /\ pstate = "open"
  /\ lits = <<>>
  /\ hexs = <<>>
  /\ nuni = 0
  /\ parsed = [tag |-> "none", segs |-> <<>>]

NextParse ==
  \/ LitOpen \/ LitChar \/ LitBackslash \/ LitEscape \/ LitHexByte
  \/ LitBrace \/ LitHexDigit \/ LitCodePoint \/ LitClose

SpecParse == InitParse /\ [][NextParse]_allvars

(***************************************************************************)
(* Line::parse: the ordered choice of the line grammar, on input that      *)
(* opens no quote and holds no `$`.  A result is the line parsed and the   *)
(* input left; NoMatch is a failure that consumed nothing, Error one that  *)
(* consumed input (no other alternative is tried after it).                *)
(***************************************************************************)
kwBreak == <<"b","r","e","a","k">>
kwContinue == <<"c","o","n","t","i","n","u","e">>
kwIf == <<"i","f">>
kwElse == <<"e","l","s","e">>
kwWhile == <<"w","h","i","l","e">>
kwCase == <<"c","a","s","e">>
kwFor == <<"f","o","r">>
kwIn == <<"i","n">>
kwArrow == <<"=",">">>

StartsWith(s, w) == Len(s) >= Len(w) /\ SubSeq(s, 1, Len(w)) = w
After(s, n) == SubSeq(s, n + 1, Len(s))

ParseError == [kind |-> "Error"]
NoMatch == [kind |-> "NoMatch"]
Failed(r) == r.kind \in {"Error", "NoMatch"}

IsSpace(c) == c \in {" ", "\t", "\n"}
IsBlank(c) == c \in {" ", "\t"}

\* spaces_line(): whitespace and newlines skipped, none required
RECURSIVE SpacesLine(_)
SpacesLine(s) == IF s # <<>> /\ IsSpace(Head(s)) THEN SpacesLine(Tail(s)) ELSE s

\* spaces(): blanks skipped, none required
RECURSIVE Spaces(_)
Spaces(s) == IF s # <<>> /\ IsBlank(Head(s)) THEN Spaces(Tail(s)) ELSE s

\* direct_str: the characters of a bareword
IsBare(c) == ~IsSpace(c) /\ c \notin {"#", "|", "&", ";", "$", "{", "}", "(", ")"}

RECURSIVE BareLen(_)
BareLen(s) == IF s # <<>> /\ IsBare(Head(s)) THEN 1 + BareLen(Tail(s)) ELSE 0

\* SpecialStr::parse where no quote opens and no `$` occurs: the quoted
\* forms fail without consuming and direct() takes one bareword
SpecialStrParse(s) ==
  IF BareLen(s) = 0 THEN [ok |-> FALSE, val |-> <<>>, rest |-> s]
  ELSE [ok |-> TRUE, val |-> <<Str(SubSeq(s, 1, BareLen(s)))>>,
        rest |-> After(s, BareLen(s))]

\* sep_end_by(Arg::parse(), spaces()) on barewords
RECURSIVE ArgsParse(_)
ArgsParse(s) ==
  IF BareLen(s) = 0 THEN [args |-> <<>>, rest |-> s]
  ELSE LET more == ArgsParse(Spaces(After(s, BareLen(s)))) IN
       [args |-> <<SubSeq(s, 1, BareLen(s))>> \o more.args, rest |-> more.rest]

\* Command::parse_ on a command without redirect, pipe or `&`
CommandParse(s) ==
  LET t == SpacesLine(s) IN
  IF t = <<>>
  THEN [kind |-> "Single", name |-> <<>>, args |-> <<>>, rest |-> <<>>]
  ELSE IF BareLen(t) = 0
  THEN (IF t = s THEN NoMatch ELSE ParseError)
  ELSE LET a == ArgsParse(Spaces(After(t, BareLen(t)))) IN
       [kind |-> "Single", name |-> SubSeq(t, 1, BareLen(t)),
        args |-> a.args, rest |-> a.rest]

\* many1(satisfy(|c| !c.is_whitespace())): the loop variable of for_
RECURSIVE WordLen(_)
WordLen(s) == IF s # <<>> /\ ~IsSpace(Head(s)) THEN 1 + WordLen(Tail(s)) ELSE 0

RECURSIVE ParseLine(_)
RECURSIVE LinesParse(_)
RECURSIVE PatsParse(_, _)
RECURSIVE GroupsParse(_)

\* a line that must follow what was already consumed
LineAfter(s) ==
  LET l == ParseLine(s) IN IF Failed(l) THEN ParseError ELSE l

\* if_, after attempt(string("if"))
IfParse(s) ==
  LET c == SpecialStrParse(SpacesLine(s)) IN
  IF ~c.ok THEN ParseError
  ELSE LET first == LineAfter(SpacesLine(c.rest)) IN
  IF Failed(first) THEN ParseError
  ELSE LET r == SpacesLine(first.rest) IN
  IF StartsWith(r, kwElse)
  THEN LET sec == LineAfter(SpacesLine(After(r, 4))) IN
       IF Failed(sec) THEN ParseError
       ELSE [kind |-> "If", cond |-> c.val, first |-> first,
             second |-> <<sec>>, rest |-> sec.rest]
  ELSE IF r # <<>> /\ Head(r) = "e" THEN ParseError
  ELSE [kind |-> "If", cond |-> c.val, first |-> first, second |-> <<>>,
        rest |-> r]

\* while_, after attempt(string("while"))
WhileParse(s) ==
  LET c == SpecialStrParse(SpacesLine(s)) IN
  IF ~c.ok THEN ParseError
  ELSE LET block == LineAfter(SpacesLine(c.rest)) IN
  IF Failed(block) THEN ParseError
  ELSE [kind |-> "While", cond |-> c.val, block |-> block, rest |-> block.rest]

\* sep_by(SpecialStr::parse().skip(spaces_line()), token('|').skip(...));
\* first: no pattern was read yet
PatsParse(s, first) ==
  LET p == SpecialStrParse(s) IN
  IF ~p.ok
  THEN [ok |-> first, pats |-> <<>>, rest |-> s]
  ELSE LET r == SpacesLine(p.rest) IN
       IF r # <<>> /\ Head(r) = "|"
       THEN LET more == PatsParse(SpacesLine(Tail(r)), FALSE) IN
            [ok |-> more.ok, pats |-> <<p.val>> \o more.pats, rest |-> more.rest]
       ELSE [ok |-> TRUE, pats |-> <<p.val>>, rest |-> r]

\* many((patterns, "=>", line)) of case
GroupsParse(s) ==
  LET ps == PatsParse(s, TRUE) IN
  IF ~ps.ok THEN [ok |-> FALSE, blocks |-> <<>>, rest |-> s]
  ELSE IF ~StartsWith(ps.rest, kwArrow)
  THEN [ok |-> ps.rest = s /\ (s = <<>> \/ Head(s) # "="), blocks |-> <<>>,
        rest |-> s]
  ELSE LET block == LineAfter(SpacesLine(After(ps.rest, 2))) IN
  IF Failed(block) THEN [ok |-> FALSE, blocks |-> <<>>, rest |-> s]
  ELSE LET more == GroupsParse(SpacesLine(block.rest)) IN
       [ok |-> more.ok,
        blocks |-> <<[pats |-> ps.pats, block |-> block]>> \o more.blocks,
        rest |-> more.rest]

\* case, after attempt(string("case"))
CaseParse(s) ==
  LET c == SpecialStrParse(SpacesLine(s)) IN
  IF ~c.ok THEN ParseError
  ELSE LET t == SpacesLine(c.rest) IN
  IF t = <<>> \/ Head(t) # "{" THEN ParseError
  ELSE LET g == GroupsParse(SpacesLine(Tail(t))) IN
  IF ~g.ok \/ g.rest = <<>> \/ Head(g.rest) # "}" THEN ParseError
  ELSE [kind |-> "Case", cond |-> c.val, blocks |-> g.blocks,
        rest |-> Tail(g.rest)]

\* for_, after attempt(string("for"))
ForParse(s) ==
  LET t == SpacesLine(s)
      u == SpacesLine(After(t, WordLen(t)))
  IN
  IF WordLen(t) = 0 \/ ~StartsWith(u, kwIn) THEN ParseError
  ELSE LET it == SpecialStrParse(SpacesLine(After(u, 2))) IN
  IF ~it.ok THEN ParseError
  ELSE LET block == LineAfter(SpacesLine(it.rest)) IN
  IF Failed(block) THEN ParseError
  ELSE [kind |-> "For", c |-> SubSeq(t, 1, WordLen(t)), iter |-> it.val,
        block |-> block, rest |-> block.rest]

\* sep_end_by(Line::parse(), token('\n').or(token(';')).with(spaces_line()))
LinesParse(s) ==
  LET l == ParseLine(s) IN
  IF l.kind = "NoMatch" THEN [ok |-> TRUE, lines |-> <<>>, rest |-> s]
  ELSE IF l.kind = "Error" THEN [ok |-> FALSE, lines |-> <<>>, rest |-> s]
  ELSE IF l.rest # <<>> /\ Head(l.rest) \in {"\n", ";"}
  THEN LET more == LinesParse(SpacesLine(Tail(l.rest))) IN
       [ok |-> more.ok, lines |-> <<l>> \o more.lines, rest |-> more.rest]
  ELSE [ok |-> TRUE, lines |-> <<l>>, rest |-> l.rest]

\* multi, after token('{')
MultiParse(s) ==
  LET ls == LinesParse(SpacesLine(s)) IN
  IF ~ls.ok \/ ls.rest = <<>> \/ Head(ls.rest) # "}" THEN ParseError
  ELSE [kind |-> "Multi", lines |-> ls.lines, rest |-> Tail(ls.rest)]

\* Line::parse_: the alternatives in order; attempt(string(keyword)) takes
\* an alternative as soon as the input starts with the keyword
ParseLine(s) ==
  IF StartsWith(s, kwBreak) THEN [kind |-> "Break", rest |-> After(s, 5)]
  ELSE IF StartsWith(s, kwContinue)
  THEN [kind |-> "Continue", rest |-> After(s, 8)]
  ELSE IF StartsWith(s, kwIf) THEN IfParse(After(s, 2))
  ELSE IF StartsWith(s, kwWhile) THEN WhileParse(After(s, 5))
  ELSE IF StartsWith(s, kwCase) THEN CaseParse(After(s, 4))
  ELSE IF StartsWith(s, kwFor) THEN ForParse(After(s, 3))
  ELSE IF s # <<>> /\ Head(s) = "{" THEN MultiParse(Tail(s))
  ELSE CommandParse(s)

Keywords == {kwBreak, kwContinue, kwIf, kwWhile, kwCase, kwFor}
Suffixes == {<<>>, <<"s">>, <<"f","a","s","t">>}
FirstWords == {k \o x : k \in Keywords, x \in Suffixes}
                \cup {<<"e","c","h","o">>, <<"i">>, <<"b","r","e","a">>, <<"f","o">>, <<"e","l","s","e","w","h","e","r","e">>, <<"w","h","i","l">>}
Tails == {<<>>, <<" ","x">>, <<" ","x"," ","y">>, <<" ","x"," ","i","n"," ","a"," ","b">>, <<" ","x"," ","b","r","e","a","k">>, <<" ","x"," ","b","r","e","a","k"," ","e","l","s","e"," ","y">>}
Blocks == {<<"{","b","r","e","a","k","}">>, <<"{"," ","e","c","h","o"," ","a",";"," ","b","r","e","a","k"," ","}">>, <<"{","}">>, <<"c","a","s","e"," ","x"," ","{","}">>, <<"c","a","s","e"," ","x"," ","{"," ","a"," ","|"," ","b"," ","=",">"," ","e","c","h","o"," ","a"," "," ","c"," ","=",">"," ","b","r","e","a","k"," ","}">>, <<"i","f"," ","x"," ","{","b","r","e","a","k","}"," ","e","l","s","e"," ","c","o","n","t","i","n","u","e">>, <<"{"," ","b","r","e","a","k","s"," ","}">>, <<"{"," ","e","c","h","o"," ","a">>}
LineInputs == {w \o x : w \in FirstWords, x \in Tails} \cup Blocks

LineParse ==
  /\ lineout.kind = "none"
  /\ lineout' = ParseLine(linein)
  /\ UNCHANGED <<linein, evars, pvars>>

InitLine ==
  /\ stack = <<>>
  /\ ret = "none"
  /\ vars = EmptyVars
  /\ env = EnvOf({})
  /\ jobs = <<>>
  /\ result = "idle"
  /\ leaked = 0
  /\ done = FrameIn([kind |-> "none"], <<>>, EnvOf({}))
  /\ pstate = "idle"
  /\ lits = <<>>
  /\ hexs = <<>>
  /\ nuni = 0
  /\ parsed = [tag |-> "none", segs |-> <<>>]
  /\ linein \in LineInputs
  /\ lineout = [kind |-> "none"]

NextLine == LineParse

SpecLine == InitLine /\ [][NextLine]_allvars

(***************************************************************************)
(* Properties of the evaluator                                             *)
(***************************************************************************)
IsPrefix(s, u) == Len(s) <= Len(u) /\ SubSeq(u, 1, Len(s)) = s

\* the Multi activations that hold an open checkpoint
InProgress ==
  Cardinality({d \in 1..Len(stack) :
                 stack[d].self.kind = "Multi" /\ stack[d].pc # "enter"})

\* ret was produced by an activation of the given kind
Returned(kind) == ret # "none" /\ done.self.kind = kind

\* C1: a Multi block that returns a signal (Normal, Breaked or Continued)
\* has dropped its checkpoint exactly once: the store, checkpoints and
\* variables, is again what it was when the block was entered, so nothing
\* pushed inside the block (status included) is left; and while a later line
\* of a block runs, everything that was in the store when the earlier line
\* returned is still there.
C1_MultiScopesVariables ==
  /\ (Returned("Multi") /\ ret \in Signals) => vars = done.v0
  /\ \A d \in 1..Len(stack) :
       LET f == stack[d] IN
       (f.self.kind = "Multi" /\ f.pc \in {"loop", "await"} /\ f.i > 1)
         => /\ IsPrefix(f.v0.entries, f.kept)
            /\ IsPrefix(f.kept, vars.entries)

\* a block left by break in which an earlier line had pushed status, with a
\* store that was not empty before the block
C1_Witness ==
  /\ Returned("Multi")
  /\ ret = "Breaked"
  /\ done.v0.entries # <<>>
  /\ Len(done.kept) > Len(done.v0.entries)
  /\ done.kept[Len(done.kept)][1] = StatusKey
  /\ vars = done.v0

\* s joined with newlines
RECURSIVE JoinLines(_)
JoinLines(ss) ==
  IF Len(ss) = 1 THEN ss[1] ELSE ss[1] \o <<"\n">> \o JoinLines(Tail(ss))

\* C2: the loop variable of a For is bound to the elements of the
\* newline-separated source, in source order, each immediately before the
\* body runs for it; once the For has returned a signal, by exhaustion or by
\* a break on any element, the loop variable is unset (not restored).
C2_ForBindsAndUnsets ==
  /\ \A d \in 1..Len(stack) :
       LET f == stack[d] IN
       (f.self.kind = "For" /\ f.pc \in {"loop", "await"})
         => /\ f.items # <<>>
            /\ JoinLines(f.items) = EvalStr(f.self.iter, f.e0).val
            /\ \A n \in 1..Len(f.items) :
                 \A m \in 1..Len(f.items[n]) : f.items[n][m] # "\n"
            /\ f.seen = SubSeq(f.items, 1, Len(f.seen))
            /\ (f.pc = "await" /\ d + 1 = Len(stack) /\ Top.pc = "enter")
                 => /\ f.self.c \in DOMAIN env
                    /\ env[f.self.c] = f.items[Len(f.seen)]
  /\ (Returned("For") /\ ret \in Signals)
       => /\ done.self.c \notin DOMAIN env
          /\ done.seen = SubSeq(done.items, 1, Len(done.seen))
          /\ done.pc = "loop" => done.seen = done.items

\* a For over three elements left by a break on the second, whose variable
\* held a value before the loop
C2_Witness ==
  /\ Returned("For")
  /\ ret = "Normal"
  /\ done.pc = "await"
  /\ Len(done.items) = 3
  /\ Len(done.seen) = 2
  /\ done.self.c \in DOMAIN done.e0
  /\ done.self.c \notin DOMAIN env

\* the subject and the patterns of Case activation f, in the environment the
\* Case was entered in
Subject(f) == EvalStr(f.self.cond, f.e0)
PatsOk(f, g) ==
  \A j \in 1..Len(f.self.blocks[g].pats) :
    EvalStr(f.self.blocks[g].pats[j], f.e0).ok
GroupMatches(f, g) ==
  \E j \in 1..Len(f.self.blocks[g].pats) :
    /\ EvalStr(f.self.blocks[g].pats[j], f.e0).ok
    /\ EvalStr(f.self.blocks[g].pats[j], f.e0).val = Subject(f).val
FirstMatch(f) ==
  IF \E g \in 1..Len(f.self.blocks) : GroupMatches(f, g)
  THEN CHOOSE g \in 1..Len(f.self.blocks) :
         GroupMatches(f, g) /\ \A h \in 1..(g - 1) : ~GroupMatches(f, h)
  ELSE 0
\* the groups up to and including the first match, all of them without one
Scanned(f) ==
  IF FirstMatch(f) = 0 THEN 1..Len(f.self.blocks) ELSE 1..FirstMatch(f)
CaseClean(f) == Subject(f).ok /\ \A g \in Scanned(f) : PatsOk(f, g)

\* the body a Case activation at depth d runs is that of group g
RunsGroup(d, g) ==
  /\ stack[d].i = g
  /\ d < Len(stack) => /\ stack[d + 1].path = Append(stack[d].path, g)
                       /\ stack[d + 1].self = stack[d].self.blocks[g].block

\* C3 as stated: a Case whose subject evaluates runs the body of exactly the
\* first group holding an alternative equal to the subject and returns that
\* body's signal; when no group holds one it runs no body and yields Normal,
\* not an error.
C3_AsStated ==
  /\ \A d \in 1..Len(stack) :
       (stack[d].self.kind = "Case" /\ stack[d].pc = "await")
         => FirstMatch(stack[d]) # 0 /\ RunsGroup(d, FirstMatch(stack[d]))
  /\ (Returned("Case") /\ done.pc = "enter" /\ Subject(done).ok)
       => FirstMatch(done) = 0 /\ ret = "Normal"
  /\ (Returned("Case") /\ done.pc = "await" /\ ret \in Signals)
       => done.rets = <<ret>>

\* C3 (amended): provided the subject and every pattern of the groups up to
\* and including the first matching one (of all groups when none matches)
\* evaluate, a Case runs the body of exactly the first group holding an
\* alternative equal to the subject and returns that body's signal, and
\* with no matching group runs no body and yields Normal; when the subject
\* or one of those patterns fails to evaluate, no body runs and the Case
\* returns the evaluation error.
C3_CaseFirstMatch ==
  /\ \A d \in 1..Len(stack) :
       (stack[d].self.kind = "Case" /\ stack[d].pc = "await")
         => /\ CaseClean(stack[d])
            /\ FirstMatch(stack[d]) # 0
            /\ RunsGroup(d, FirstMatch(stack[d]))
  /\ (Returned("Case") /\ done.pc = "enter")
       => IF CaseClean(done)
          THEN FirstMatch(done) = 0 /\ ret = "Normal"
          ELSE ret = "Err"
  /\ (Returned("Case") /\ done.pc = "await" /\ ret \in Signals)
       => done.rets = <<ret>>

\* subject "b", groups ("a" | "b") and ("b"): the first group's command ran,
\* the second group's did not
C3_Witness ==
  /\ Returned("Case")
  /\ done.pc = "await"
  /\ done.i = 1
  /\ GroupMatches(done, 2)
  /\ ret = "Normal"
  /\ Len(jobs) = 1
  /\ jobs[1].path = Append(done.path, 1)

UpperOf(c) ==
  IF \E i \in 1..26 : LowerCase[i] = c
  THEN UpperCase[CHOOSE i \in 1..26 : LowerCase[i] = c]
  ELSE c
SameIgnoringCase(s, w) ==
  Len(s) = Len(w) /\ \A i \in 1..Len(s) : s[i] \in {w[i], UpperOf(w[i])}
TruthyWords == {<<"1">>, <<"y">>, <<"y","e","s">>, <<"t","r","u","e">>}
IsTruthy(s) == \E w \in TruthyWords : SameIgnoringCase(s, w)

\* C4: a While runs its body exactly after a check of its condition that
\* found it truthy (its text, ignoring case, one of 1, y, yes, true) and
\* returns Normal at the first check that finds it falsy; a While falsy at
\* its first check runs nothing and evaluate succeeds.
C4_WhileChecksCondition ==
  /\ \A d \in 1..Len(stack) :
       (/\ stack[d].self.kind = "While"
        /\ stack[d].pc = "await"
        /\ d + 1 = Len(stack)
        /\ Top.pc = "enter")
         => /\ EvalStr(stack[d].self.cond, env).ok
            /\ IsTruthy(EvalStr(stack[d].self.cond, env).val)
  /\ (Returned("While") /\ done.pc \in {"enter", "loop"})
       => IF EvalStr(done.self.cond, env).ok
          THEN ~IsTruthy(EvalStr(done.self.cond, env).val) /\ ret = "Normal"
          ELSE ret = "Err"
  /\ (Returned("While") /\ done.pc = "enter")
       => /\ Len(jobs) = done.j0
          /\ (ret = "Normal" /\ done.path = <<>> /\ result # "running")
               => result = "Ok"

\* `while $x; c1` with x set to a falsy text: no command ran, evaluate
\* succeeded
C4_Witness ==
  /\ Returned("While")
  /\ done.pc = "enter"
  /\ done.self.block.kind = "Single"
  /\ EvalStr(done.self.cond, env).ok
  /\ EvalStr(done.self.cond, env).val # <<>>
  /\ ret = "Normal"
  /\ jobs = <<>>
  /\ result = "Ok"

Abrupt == {"Breaked", "Continued"}

\* C5: If, Case and Multi hand a Breaked or Continued of their child on
\* unchanged; a While or For whose body yields Breaked stops and yields
\* Normal, one whose body yields Continued goes on to its next check or
\* element; a While or For never yields anything but Normal.
C5_Step ==
  /\ (Running /\ ret \in Abrupt /\ Top.self.kind \in {"If", "Case", "Multi"})
       => stack' = Pop /\ ret' = ret
  /\ (Running /\ ret = "Breaked" /\ Top.self.kind \in {"While", "For"})
       => stack' = Pop /\ ret' = "Normal"
  /\ (Running /\ ret = "Continued" /\ Top.self.kind \in {"While", "For"})
       => /\ Len(stack') = Len(stack)
          /\ stack'[Len(stack)].pc = "loop"
          /\ ret' = "none"
          /\ Top.self.kind = "For" => stack'[Len(stack)].i = Top.i + 1
  /\ (Running /\ Top.self.kind \in {"While", "For"} /\ stack' = Pop)
       => ret' \in {"Normal", "Err"}

C5_LoopsAbsorbSignals == [][C5_Step]_allvars

\* an inner While was left by break while an outer For goes on
C5_Witness ==
  /\ Returned("While")
  /\ done.pc = "await"
  /\ ret = "Normal"
  /\ \E d \in 1..Len(stack) :
       stack[d].self.kind = "For" /\ stack[d].i < Len(stack[d].items)

\* the line of Multi activation f (at path p) that job j belongs to
LineOf(p, j) == j.path[Len(p) + 1]
\* the jobs submitted since activation f was entered run through its lines
\* in source order and none belongs to a line after line n
InLineOrder(f, n) ==
  \A a \in (f.j0 + 1)..Len(jobs) :
    /\ IsPrefix(f.path, jobs[a].path)
    /\ Len(jobs[a].path) > Len(f.path)
    /\ LineOf(f.path, jobs[a]) <= n
    /\ \A b \in (a + 1)..Len(jobs) :
         LineOf(f.path, jobs[a]) <= LineOf(f.path, jobs[b])

\* C6: a Multi evaluates its lines in source order; at the first line that
\* yields Breaked or Continued it stops, no later line is evaluated or
\* submitted, and the block returns that signal; it returns Normal only
\* after every line was evaluated and yielded Normal.
C6_MultiInOrder ==
  /\ \A d \in 1..Len(stack) :
       LET f == stack[d] IN
       (f.self.kind = "Multi" /\ f.pc \in {"loop", "await"})
         => /\ \A n \in 1..Len(f.rets) : f.rets[n] = "Normal"
            /\ f.pc = "await" =>
                 /\ Len(f.rets) < Len(f.self.lines)
                 /\ InLineOrder(f, Len(f.rets) + 1)
                 /\ d < Len(stack) =>
                      /\ stack[d + 1].path = Append(f.path, Len(f.rets) + 1)
                      /\ stack[d + 1].self = f.self.lines[Len(f.rets) + 1]
            /\ f.pc = "loop" => InLineOrder(f, Len(f.rets))
  /\ (Returned("Multi") /\ ret = "Normal")
       => /\ Len(done.rets) = Len(done.self.lines)
          /\ \A n \in 1..Len(done.rets) : done.rets[n] = "Normal"
  /\ (Returned("Multi") /\ ret \in Abrupt)
       => /\ Len(done.rets) <= Len(done.self.lines)
          /\ done.rets[Len(done.rets)] = ret
          /\ \A n \in 1..(Len(done.rets) - 1) : done.rets[n] = "Normal"
          /\ InLineOrder(done, Len(done.rets))

\* { c1; continue; c2 }: c1 was submitted, the block returned Continued at
\* its second line with a line left
C6_Witness ==
  /\ Returned("Multi")
  /\ ret = "Continued"
  /\ Len(done.rets) = 2
  /\ Len(done.self.lines) = 3
  /\ done.self.lines[3].kind = "Single"
  /\ Len(jobs) > done.j0

\* C7: an evaluation error is handed up through every enclosing construct
\* to evaluate, which fails; nothing more is evaluated or submitted on the
\* way, and no Multi in progress drops its checkpoint: the store keeps one
\* open checkpoint for each such block, and the variables pushed in them.
C7_Step ==
  /\ (Running /\ ret = "Err")
       => stack' = Pop /\ ret' = "Err" /\ UNCHANGED <<vars, env, jobs>>
  /\ (result = "running" /\ stack = <<>> /\ ret = "Err") => result' = "Err"

C7_ErrorsLeaveCheckpoints ==
  /\ [](result # "Panic" => Len(vars.marks) = InProgress + leaked)
  /\ [](ret # "Err" => leaked = 0)
  /\ [][C7_Step]_allvars

\* evaluate failed inside two nested blocks: two checkpoints stay open and
\* the status pushed in the outer block is still in the store
C7_Witness ==
  /\ result = "Err"
  /\ leaked = 2
  /\ Len(vars.marks) = 2
  /\ Len(vars.entries) > vars.marks[1]
  /\ vars.entries[Len(vars.entries)][1] = StatusKey

(***************************************************************************)
(* Properties of the literal parser                                        *)
(***************************************************************************)
\* C8: parsing is total: whatever the input, the parser returns a value or
\* a parse error and never aborts the program; a \u{...} escape whose digits
\* name a surrogate, a value above 10FFFF or a value wider than 32 bits is a
\* parse error.
C8_ParseIsTotal == parsed.tag \in {"none", "Ok", "ParseError"}

\* no activation of a While or a For is in progress
NoLoop == \A d \in 1..Len(stack) : stack[d].self.kind \notin {"While", "For"}

\* a break or continue that no loop encloses is on its way out
Stray == ret \in Abrupt /\ NoLoop

C10_Step ==
  /\ (Running /\ Stray) => stack' = Pop /\ ret' = ret /\ jobs' = jobs
  /\ (result = "running" /\ stack = <<>> /\ Stray)
       => result' = "Ok" /\ ret' = ret /\ jobs' = jobs

\* C10: a Break or Continue outside every While and For is not an error:
\* evaluate returns success; the signal unwinds every enclosing block, so
\* no line after it in any of them is evaluated or submitted, and each of
\* these blocks drops its checkpoint.
C10_StraySignalUnwinds ==
  /\ []((result \notin {"running", "Panic"} /\ ret \in Abrupt)
         => /\ result = "Ok"
            /\ done.path = <<>>
            /\ vars.marks = done.v0.marks)
  /\ []((Stray /\ Returned("Multi"))
         => /\ vars = done.v0
            /\ Len(done.rets) <= Len(done.self.lines)
            /\ InLineOrder(done, Len(done.rets)))
  /\ [][C10_Step]_allvars

\* { c1; { break; c2 }; c3 } on a store in use: evaluate succeeded with
\* the signal Breaked, c1 is the only job, the store is as it was
C10_Witness ==
  /\ result = "Ok"
  /\ ret = "Breaked"
  /\ done.self = PMulti7
  /\ Len(done.rets) = 2
  /\ Len(jobs) = 1
  /\ jobs[1].path = <<1>>
  /\ vars = UsedVars

\* the first word of the input
FirstWord(s) == SubSeq(s, 1, WordLen(s))

\* C9: no keyword is recognised as a prefix of a longer word: input whose
\* first word begins with break, continue, if, while, case or for and goes
\* on is parsed as a bare command named by the whole word.
C9_NoKeywordPrefix ==
  (/\ lineout.kind # "none"
   /\ \E k \in Keywords :
        StartsWith(FirstWord(linein), k) /\ FirstWord(linein) # k)
    => lineout.kind = "Single" /\ lineout.name = FirstWord(linein)
====
